---- MODULE Spec2Model ----
(***************************************************************************)
(* A model of tview's Form (form.go): the field/button registry, the       *)
(* focus-navigation state machine of Form.Focus and the geometry pass of   *)
(* Form.Draw.                                                              *)
(*                                                                         *)
(* Sequences are 1-based here and 0-based in Go: Go's s[i] is s[i+1].      *)
(* A Go runtime panic (index out of range) is the flag `panic`; once set,  *)
(* the program has stopped and no operation is enabled.                    *)
(***************************************************************************)
EXTENDS Integers, Sequences, FiniteSets, TLC

VARIABLES
    items,            \* f.items: the fields, each a record (see NewItem)
    itemsColumn,      \* f.itemsColumn
    buttons,          \* f.buttons, each a record (see NewButton)
    focusedElement,   \* f.focusedElement
    lastItem,         \* f.lastItem
    lastButton,       \* f.lastButton
    cancel,           \* f.cancel # nil
    horizontal,       \* f.horizontal
    align,            \* f.align
    buttonsAlign,     \* f.buttonsAlign
    itemPadding,      \* f.itemPadding
    columnPadding,    \* f.columnPadding
    buttonsPaddingTop,\* f.buttonsPaddingTop
    buttonsIndent,    \* f.buttonsIndent
    box,              \* f.Box: rectangle, border and padding
    draws,            \* the number of Draw passes so far
    appFocus,         \* the primitive last passed to delegate, and whether it reports focus
    panic,            \* a Go runtime panic happened
    op                \* the operation that produced this state (history)

regVars == <<items, itemsColumn, buttons, cancel>>
navVars == <<focusedElement, lastItem, lastButton, appFocus>>
layVars == <<horizontal, align, buttonsAlign, itemPadding, columnPadding,
             buttonsPaddingTop, buttonsIndent, box, draws>>
vars == <<regVars, navVars, layVars, panic, op>>

----------------------------------------------------------------------------
(* Bounds of the model. *)

MaxItems == 2
MaxButtons == 2
MaxColumnEntries == 2
MaxDraws == 2

(* Program constants. *)

DefaultFormFieldWidth == 10
DefaultColumnPadding == 1
DefaultItemPadding == 1
DefaultButtonsPaddingTop == 2
DefaultButtonsIndent == 4

Keys == {"Tab", "Backtab", "Enter", "Up", "Down", "Left", "Right", "Escape"}
Aligns == {"left", "center", "right"}

Min(S) == CHOOSE x \in S : \A y \in S : x <= y
Max(S) == CHOOSE x \in S : \A y \in S : x >= y

----------------------------------------------------------------------------
(* The collaborators: fields, buttons, the box, the application's focus.   *)

NoRect == [x |-> 0, y |-> 0, width |-> 0, height |-> 0]

\* A field as the form sees it through FormItem. col is history: the column
\* the field was added with (0 when none was given).
NewItem(id, disable, label, field, fieldAlign, height) ==
    [id |-> id, disable |-> disable, label |-> label, field |-> field,
     fieldAlign |-> fieldAlign, padL |-> 0, padR |-> 0,
     rect |-> [NoRect EXCEPT !.height = height], drawn |-> FALSE, col |-> 0]

\* A button: label is the screen width of its label text.
NewButton(id, label) ==
    [id |-> id, hidden |-> FALSE, label |-> label, rect |-> NoRect, drawn |-> FALSE]

\* NewBox().SetBorderPadding(1, 1, 1, 1) with f.width = 0 and f.height = 0.
NewBox ==
    [x |-> 0, y |-> 0, width |-> 0, height |-> 0, border |-> FALSE,
     paddingTop |-> 1, paddingBottom |-> 1, paddingLeft |-> 1, paddingRight |-> 1]

NoFocus == [id |-> 0, kind |-> "none", has |-> FALSE]

\* GetID: every primitive has an identity of its own. The model names them
\* canonically: the field stored at position i is i, the button stored at
\* position j is -j, and a primitive that was removed from the form while the
\* application still focuses it is 0 (fields and buttons are only ever
\* appended, or removed all at once, so that positions are stable).
ItemId == Len(items) + 1
ButtonId == -(Len(buttons) + 1)

\* The application's focus after the fields (and buttons) were removed.
Detach(foc, includeItems, includeButtons) ==
    IF \/ includeItems /\ foc.kind = "item"
       \/ includeButtons /\ foc.kind = "button"
    THEN [foc EXCEPT !.id = 0]
    ELSE foc

----------------------------------------------------------------------------
(* Form.Buttons: the non-hidden buttons, in storage order.                 *)

RECURSIVE ButtonsFrom(_)
ButtonsFrom(i) ==
    IF i > Len(buttons) THEN <<>>
    ELSE (IF ~buttons[i].hidden THEN <<buttons[i]>> ELSE <<>>) \o ButtonsFrom(i + 1)

ButtonsWithHidden == buttons

Buttons == ButtonsFrom(1)

\* The storage positions of the non-hidden buttons.
VisiblePositions == {j \in 1..Len(buttons) : ~buttons[j].hidden}

numFields == Len(items)
numButtons == Len(Buttons)
numElements == numFields + numButtons

----------------------------------------------------------------------------
(* Form.Focus and its closures, as functions of the navigation state s:    *)
(* fe (focusedElement), lastItem, lastButton, foc (appFocus), panic, and   *)
(* the counters of one transition: handoffs (calls of delegate) and        *)
(* cancels (calls of f.cancel).                                            *)

Cur ==
    [fe |-> focusedElement, lastItem |-> lastItem, lastButton |-> lastButton,
     foc |-> appFocus, panic |-> FALSE, handoffs |-> 0, cancels |-> 0]

Panic(s) == [s EXCEPT !.panic = TRUE]

\* delegate(p): the application blurs the primitive that had focus and hands
\* focus to p; a disabled field declines, so that nothing reports focus.
Delegate(s, kind, e) ==
    [s EXCEPT !.foc = [id |-> e.id, kind |-> kind,
                       has |-> (kind = "button" \/ ~e.disable)],
              !.handoffs = @ + 1]

\* p.HasFocus() of a field or button e.
HasFocus(s, kind, e) == s.foc.has /\ s.foc.kind = kind /\ s.foc.id = e.id

\* The clamp of an out-of-range focus index.
Clamp(fe) == IF fe < 0 \/ fe >= numElements THEN 0 ELSE fe

\* The button a focus index fe >= numFields denotes, as a 0-based index into
\* Buttons(): len(f.Buttons())-1-(f.focusedElement-len(f.items)).
ButtonIndexForward(fe) == fe - numFields

ButtonIndex(fe) == numButtons - 1 - (fe - numFields)

\* Form.Focus(delegate).
Focus(s) ==
    IF numElements = 0 THEN s
    ELSE LET fe == Clamp(s.fe)
             s1 == [s EXCEPT !.fe = fe]
         IN  IF fe < numFields
             THEN IF fe < 0 THEN Panic(s1)
                  ELSE Delegate(s1, "item", items[fe + 1])
             ELSE LET k == ButtonIndex(fe)
                  IN  IF k < 0 \/ k >= numButtons THEN Panic(s1)
                      ELSE Delegate(s1, "button", Buttons[k + 1])

makeRange(start, end) ==
    IF start < end
    THEN [i \in 1..(end - start + 1) |-> start + (i - 1)]
    ELSE [i \in 1..(start - end + 1) |-> start - (i - 1)]

RotateNone(indexes, fe) == indexes

\* The rotation at the head of nextStep.
Rotate(indexes, fe) ==
    LET hits == {i \in 2..Len(indexes) :
                    \/ indexes[i - 1] < indexes[i] /\ fe < indexes[i]
                    \/ indexes[i - 1] > indexes[i] /\ fe > indexes[i]}
    IN  IF hits = {} THEN indexes
        ELSE LET i == Min(hits)
             IN  SubSeq(indexes, i, Len(indexes)) \o SubSeq(indexes, 1, i - 1)

\* The two identity tests of the loop: "panic", "same" (continue) or "other".
SameElement(fe, current) ==
    IF fe < numFields /\ current < numFields
    THEN IF fe < 0 \/ current < 0 THEN "panic"
         ELSE IF items[current + 1].id = items[fe + 1].id THEN "same" ELSE "other"
    ELSE IF fe >= numFields /\ current >= numFields
    THEN IF current - numFields >= numButtons \/ fe - numFields >= numButtons THEN "panic"
         ELSE IF Buttons[current - numFields + 1].id = Buttons[fe - numFields + 1].id
              THEN "same" ELSE "other"
    ELSE "other"

\* The two acceptance tests after f.Focus(delegate): "panic", "item", "button"
\* (break) or "none" (next candidate).
Accepted(s) ==
    IF s.fe < numFields
    THEN IF s.fe < 0 THEN "panic"
         ELSE IF HasFocus(s, "item", items[s.fe + 1]) THEN "item"
         ELSE "none"
    ELSE LET k == ButtonIndex(s.fe)
         IN  IF k < 0 \/ k >= numButtons THEN "panic"
             ELSE IF HasFocus(s, "button", Buttons[k + 1]) THEN "button"
             ELSE "none"

\* The candidate loop of nextStep, from candidate i on.
RECURSIVE StepLoop(_, _, _, _)
StepLoop(indexes, i, current, s) ==
    IF i > Len(indexes) THEN s
    ELSE IF indexes[i] >= numElements THEN StepLoop(indexes, i + 1, current, s)
    ELSE LET s1 == [s EXCEPT !.fe = indexes[i]]
             same == SameElement(s1.fe, current)
         IN  IF same = "panic" THEN Panic(s1)
             ELSE IF same = "same" THEN StepLoop(indexes, i + 1, current, s1)
             ELSE LET s2 == Focus(s1)
                      acc == IF s2.panic THEN "panic" ELSE Accepted(s2)
                  IN  IF acc = "panic" THEN Panic(s2)
                      ELSE IF acc = "item" THEN [s2 EXCEPT !.lastItem = s2.fe]
                      ELSE IF acc = "button" THEN [s2 EXCEPT !.lastButton = s2.fe]
                      ELSE StepLoop(indexes, i + 1, current, s2)

nextStep(indexes, s) == StepLoop(Rotate(indexes, s.fe), 1, s.fe, s)

EscapeKeepingIndex(s) ==
    IF cancel THEN [s EXCEPT !.cancels = @ + 1]
    ELSE Focus(s)

\* case tcell.KeyEscape of both handlers.
Escape(s) ==
    IF cancel THEN [s EXCEPT !.cancels = @ + 1]
    ELSE Focus([s EXCEPT !.fe = 0])

itemHandler(key, s) ==
    CASE key = "Tab"     -> nextStep(makeRange(0, numFields), s)
      [] key = "Backtab" -> nextStep(makeRange(numFields, 0), s)
      [] key = "Enter"   -> nextStep(makeRange(0, numFields), s)
      [] key = "Up"      -> nextStep(makeRange(numFields - 1, 0), s)
      [] key = "Down"    -> nextStep(makeRange(0, numFields - 1), s)
      [] key = "Escape"  -> Escape(s)
      [] OTHER           -> s

buttonHandler(key, s) ==
    CASE key = "Tab"     -> nextStep(makeRange(0, numFields), s)
      [] key = "Backtab" -> nextStep(makeRange(numFields, 0), s)
      [] key \in {"Up", "Left"} ->
            nextStep(makeRange(numFields, numFields + numButtons - 1), s)
      [] key \in {"Down", "Right"} ->
            nextStep(makeRange(numFields + numButtons - 1, numFields), s)
      [] key = "Escape"  -> Escape(s)
      [] OTHER           -> s

\* The handler the focused primitive calls with a key: a field calls the
\* function set by SetFinishedFunc, a button the one set by SetBlurFunc.
Handle(key, s) ==
    IF s.foc.kind = "item" THEN itemHandler(key, s) ELSE buttonHandler(key, s)

----------------------------------------------------------------------------
(* The geometry pass: measurement (getMaxWidthItems, getMaxHeightColumn)   *)
(* and placement (Draw), over the current fields and visible buttons.      *)

\* Go's integer division, which truncates toward zero.
GoDiv(a, b) == IF a >= 0 THEN a \div b ELSE -((-a) \div b)

\* Box.GetInnerRect: the rectangle inside the border and the padding, with a
\* negative width or height replaced by 0.
GetInnerRect ==
    LET b == IF box.border THEN 1 ELSE 0
        w == box.width - 2 * b - box.paddingLeft - box.paddingRight
        h == box.height - 2 * b - box.paddingTop - box.paddingBottom
    IN  [x |-> box.x + b + box.paddingLeft,
         y |-> box.y + b + box.paddingTop,
         width |-> IF w < 0 THEN 0 ELSE w,
         height |-> IF h < 0 THEN 0 ELSE h]

getColoumnsCount ==
    Max({0} \cup {itemsColumn[i] : i \in 1..Len(itemsColumn)}) + 1

ZeroPerColumn == [c \in 0..(getColoumnsCount - 1) |-> 0]

\* f.itemsColumn[index] for every field: false when a lookup panics.
ColumnLookupsInRange == Len(itemsColumn) >= Len(items)

\* The first loop of getMaxWidthItems, from field i on.
RECURSIVE LabelFieldLoop(_, _, _)
LabelFieldLoop(i, maxLabelWidth, maxFieldWidth) ==
    IF i > Len(items) THEN [maxLabelWidth |-> maxLabelWidth, maxFieldWidth |-> maxFieldWidth]
    ELSE LET item == items[i]
             labelWidth == item.label + item.padL
             fieldWidth == item.field + item.padR
             column == itemsColumn[i]
         IN  LabelFieldLoop(i + 1,
                IF /\ labelWidth > 0
                   /\ labelWidth > maxLabelWidth[column] - 1
                   /\ item.fieldAlign = "center"
                THEN [maxLabelWidth EXCEPT ![column] = labelWidth + 1]
                ELSE maxLabelWidth,
                IF fieldWidth > maxFieldWidth[column]
                THEN [maxFieldWidth EXCEPT ![column] = fieldWidth]
                ELSE maxFieldWidth)

\* The second loop of getMaxWidthItems, from field i on.
RECURSIVE MaxWidthLoop(_, _, _)
MaxWidthLoop(i, maxWidth, m) ==
    IF i > Len(items) THEN maxWidth
    ELSE LET item == items[i]
             labelWidth == item.label + item.padL
             fieldWidth == item.field + item.padR
             column == itemsColumn[i]
             w1 == IF labelWidth + fieldWidth > maxWidth[column]
                   THEN labelWidth + fieldWidth ELSE maxWidth[column]
             w2 == IF item.fieldAlign = "center"
                   THEN m.maxLabelWidth[column] + m.maxFieldWidth[column]
                   ELSE w1
         IN  MaxWidthLoop(i + 1, [maxWidth EXCEPT ![column] = w2], m)

getMaxWidthItems ==
    LET m == LabelFieldLoop(1, ZeroPerColumn, ZeroPerColumn)
    IN  [maxWidth |-> MaxWidthLoop(1, ZeroPerColumn, m),
         maxLabelWidth |-> m.maxLabelWidth,
         maxFieldWidth |-> m.maxFieldWidth]

\* The first loop of getMaxHeightColumn, from field i on.
RECURSIVE MaxHeightLoop(_, _)
MaxHeightLoop(i, maxHeight) ==
    IF i > Len(items) THEN maxHeight
    ELSE MaxHeightLoop(i + 1,
            [maxHeight EXCEPT ![itemsColumn[i]] = @ + items[i].rect.height + itemPadding])

getMaxHeightColumn ==
    IF Len(items) > 0
    THEN LET maxHeight == MaxHeightLoop(1, ZeroPerColumn)
         IN  Max({0} \cup {maxHeight[c] : c \in DOMAIN maxHeight}) - itemPadding
    ELSE 0

\* Form.GetRect, when no column lookup panics: the rectangle of the box, with
\* a width or height of 0 replaced by the size the content asks for.
GetRect ==
    LET maxWidth == getMaxWidthItems.maxWidth
        frame == IF box.border THEN 2 ELSE 0
    IN  [x |-> box.x,
         y |-> box.y,
         width |-> IF box.width = 0
                   THEN Max({0} \cup {maxWidth[c] : c \in DOMAIN maxWidth})
                        + box.paddingLeft + box.paddingRight + frame
                   ELSE box.width,
         height |-> IF box.height = 0
                    THEN getMaxHeightColumn
                         + (IF numButtons > 0 THEN 1 + buttonsPaddingTop ELSE 0)
                         + frame + box.paddingTop + box.paddingBottom
                    ELSE box.height]

ZeroPosition == [x |-> 0, y |-> 0, width |-> 0, height |-> 0]

\* The limits Draw derives from the inner rectangle.
Limits ==
    LET r == GetInnerRect
    IN  [startX |-> r.x, topLimit |-> r.y, bottomLimit |-> r.y + r.height,
         rightLimit |-> r.x + r.width, boxWidth |-> r.width, boxHeight |-> r.height]

\* The width of all columns with the separators between them.
ContentWidth(maxColWidth) ==
    LET RECURSIVE Sum(_)
        Sum(c) == IF c < 0 THEN 0 ELSE Sum(c - 1) + maxColWidth[c]
    IN  Sum(getColoumnsCount - 1) + (getColoumnsCount - 1) * (1 + columnPadding)

\* x after the switch on f.align.
AlignedX(g, maxWidth) ==
    CASE align = "center" -> g.startX + GoDiv(g.boxWidth - maxWidth, 2)
      [] align = "right"  -> g.startX + (g.boxWidth - maxWidth)
      [] OTHER            -> g.startX

\* colX[column]: the columns from x on, maxColWidth[c] + 1 + columnPadding apart.
ColX(x, maxColWidth) ==
    LET RECURSIVE Before(_)
        Before(c) == IF c <= 0 THEN 0
                     ELSE Before(c - 1) + maxColWidth[c - 1] + 1 + columnPadding
    IN  [c \in 0..(getColoumnsCount - 1) |-> x + Before(c)]

WrapsNever(x, labelWidth, g) == FALSE

\* "Advance to next line if there is no space": the test of the field loop.
Wraps(x, labelWidth, g) == horizontal /\ x + labelWidth + 1 >= g.rightLimit

\* One pass of the field loop of Draw: the attributes pushed to the field by
\* SetFormAttributes, the position saved for it and the item width computed.
PlaceItem(item, column, x0, y0, m, g) ==
    LET flexible == IF item.field = 0 THEN DefaultFormFieldWidth ELSE item.field
        labelWidth ==
            IF horizontal THEN item.label
            ELSE CASE item.fieldAlign = "center" -> m.maxLabelWidth[column] - item.padL
                   [] item.fieldAlign = "right" ->
                        m.maxWidth[column] - item.padL - item.field - item.padR
                   [] OTHER -> item.label
        fieldWidth ==
            IF horizontal THEN flexible
            ELSE CASE item.fieldAlign = "right" -> item.field
                   [] OTHER -> m.maxWidth[column] - item.padL - labelWidth - item.padR
        wrap == Wraps(x0, labelWidth, g)
        x == IF wrap THEN g.startX ELSE x0
        y == IF wrap THEN y0 + 2 ELSE y0
        width == IF horizontal THEN labelWidth + fieldWidth ELSE g.boxWidth
    IN  [labelWidth |-> labelWidth, fieldWidth |-> fieldWidth,
         itemWidth |-> IF x + width >= g.rightLimit THEN g.rightLimit - x ELSE width,
         position |-> [x |-> x, y |-> y, width |-> m.maxWidth[column],
                       height |-> item.rect.height]]

\* The field loop of Draw, from field i on: colY and the placements so far.
RECURSIVE ItemLoop(_, _, _, _, _, _)
ItemLoop(i, colX, colY, placed, m, g) ==
    IF i > Len(items) THEN placed
    ELSE LET column == itemsColumn[i]
             p == PlaceItem(items[i], column, colX[column], colY[column], m, g)
             y == IF horizontal THEN p.position.y
                  ELSE p.position.y + p.position.height + itemPadding
         IN  ItemLoop(i + 1, colX, [colY EXCEPT ![column] = y], Append(placed, p), m, g)

\* Sum of w + f.buttonsIndent over the visible buttons, less one.
ButtonsWidth ==
    LET RECURSIVE Sum(_)
        Sum(k) == IF k = 0 THEN 0 ELSE Sum(k - 1) + Buttons[k].label + 4 + buttonsIndent
    IN  Sum(numButtons) - 1

\* x before the button loop.
ButtonsX(x, g) ==
    IF ~horizontal /\ x + ButtonsWidth < g.rightLimit
    THEN CASE buttonsAlign = "right"  -> g.rightLimit - ButtonsWidth
           [] buttonsAlign = "center" -> GoDiv(g.boxWidth - ButtonsWidth, 2) + g.startX
           [] OTHER                   -> x
    ELSE x

\* x before the button loop of a form drawn as it is now.
ButtonsStart == ButtonsX(AlignedX(Limits, ContentWidth(getMaxWidthItems.maxWidth)), Limits)

\* The width a button of width w is given in the space left on its row.
ClampedWidthNone(w, space) == w

ClampedWidth(w, space) == IF w > space THEN space ELSE w

\* The button loop of Draw, from visible button index on: the positions of the
\* buttons placed before the loop ended or broke off.
RECURSIVE ButtonLoop(_, _, _, _, _)
ButtonLoop(index, x, y, placed, g) ==
    IF index > numButtons THEN placed
    ELSE LET space0 == g.rightLimit - x
             w == Buttons[index].label + 4
             wrap == horizontal /\ space0 < w - 4
             x1 == IF wrap THEN g.startX ELSE x
             y1 == IF wrap THEN y + 2 ELSE y
             space == IF wrap THEN g.boxWidth ELSE space0
             buttonWidth == ClampedWidth(w, space)
         IN  IF ~horizontal /\ space0 < 1 THEN placed
             ELSE ButtonLoop(index + 1, x1 + buttonWidth + buttonsIndent, y1,
                             Append(placed, [x |-> x1, y |-> y1, width |-> buttonWidth,
                                             height |-> 1]), g)

\* The scroll offset for the position of the focused element.
Offset(focusedPosition, g) ==
    IF focusedPosition.y + focusedPosition.height > g.bottomLimit
    THEN LET offset == focusedPosition.y + focusedPosition.height - g.bottomLimit
         IN  IF focusedPosition.y - offset < g.topLimit
             THEN focusedPosition.y - g.topLimit
             ELSE offset
    ELSE 0

\* The geometry Draw computes, when no column lookup panics: the placement of
\* every field, the position of every visible button (ZeroPosition for one the
\* loop did not reach), the position of the focused element and the offset.
Layout ==
    LET g == Limits
        m == getMaxWidthItems
        x == AlignedX(g, ContentWidth(m.maxWidth))
        its == ItemLoop(1, ColX(x, m.maxWidth), [c \in DOMAIN m.maxWidth |-> g.topLimit],
                        <<>>, m, g)
        y == g.topLimit + getMaxHeightColumn
             + (IF numButtons > 0 THEN buttonsPaddingTop ELSE 0)
        reached == ButtonLoop(1, ButtonsX(x, g), y, <<>>, g)
        bts == [k \in 1..numButtons |->
                    IF k <= Len(reached) THEN reached[k] ELSE ZeroPosition]
        fi == {i \in 1..Len(items) : HasFocus(Cur, "item", items[i])}
        fb == {k \in 1..Len(reached) : HasFocus(Cur, "button", Buttons[k])}
        focusedPosition == IF fb # {} THEN bts[Max(fb)]
                           ELSE IF fi # {} THEN its[Max(fi)].position
                           ELSE ZeroPosition
    IN  [limits |-> g, measure |-> m, items |-> its, buttons |-> bts,
         placedButtons |-> Len(reached), focusedPosition |-> focusedPosition,
         offset |-> Offset(focusedPosition, g)]

----------------------------------------------------------------------------
(* The operations.                                                         *)

\* History: the operation that led to the state, its key or argument, and
\* how often it called delegate and f.cancel.
Op(name, key, arg, s) ==
    [name |-> name, key |-> key, arg |-> arg, handoffs |-> s.handoffs,
     cancels |-> s.cancels]

Quiet == [handoffs |-> 0, cancels |-> 0]

SetNav(s) ==
    /\ focusedElement' = s.fe
    /\ lastItem' = s.lastItem
    /\ lastButton' = s.lastButton
    /\ appFocus' = s.foc
    /\ panic' = s.panic

\* f.items = append(f.items, item) of the five Add<Field> methods, which
\* build the field themselves: they do not touch f.itemsColumn.
AppendField ==
    /\ ~panic
    /\ Len(items) < MaxItems
    /\ items' = Append(items, NewItem(ItemId, FALSE, 1, 1, "left", 1))
    /\ op' = Op("AppendField", "", 0, Quiet)
    /\ UNCHANGED <<itemsColumn, buttons, cancel, navVars, layVars, panic>>

AddInputField == AppendField
AddPasswordField == AppendField
AddDropDown == AppendField
AddRadioButton == AppendField
AddCheckbox == AppendField

AddButton(label) ==
    /\ ~panic
    /\ Len(buttons) < MaxButtons
    /\ buttons' = Append(buttons, NewButton(ButtonId, label))
    /\ op' = Op("AddButton", "", label, Quiet)
    /\ UNCHANGED <<items, itemsColumn, cancel, navVars, layVars, panic>>

HiddenButton(index, state) ==
    /\ ~panic
    /\ buttons' = IF Len(buttons) > index
                  THEN [buttons EXCEPT ![index + 1].hidden = state]
                  ELSE buttons
    /\ op' = Op(IF state THEN "HiddenButton" ELSE "ShowButton", "", index, Quiet)
    /\ UNCHANGED <<items, itemsColumn, cancel, navVars, layVars, panic>>

ClearKeepingFocus(includeButtons) ==
    /\ ~panic
    /\ items' = <<>>
    /\ buttons' = IF includeButtons THEN <<>> ELSE buttons
    /\ appFocus' = Detach(appFocus, TRUE, includeButtons)
    /\ op' = Op("Clear", "", IF includeButtons THEN 1 ELSE 0, Quiet)
    /\ UNCHANGED <<itemsColumn, cancel, focusedElement, lastItem, lastButton,
                   layVars, panic>>

Clear(includeButtons) ==
    /\ ~panic
    /\ items' = <<>>
    /\ buttons' = IF includeButtons THEN <<>> ELSE buttons
    /\ focusedElement' = 0
    /\ appFocus' = Detach(appFocus, TRUE, includeButtons)
    /\ op' = Op("Clear", "", IF includeButtons THEN 1 ELSE 0, Quiet)
    /\ UNCHANGED <<itemsColumn, cancel, lastItem, lastButton, layVars, panic>>

ClearButtons ==
    /\ ~panic
    /\ buttons' = <<>>
    /\ appFocus' = Detach(appFocus, FALSE, TRUE)
    /\ op' = Op("ClearButtons", "", 0, Quiet)
    /\ UNCHANGED <<items, itemsColumn, cancel, focusedElement, lastItem, lastButton,
                   layVars, panic>>

AddFormItemWithColumn(item, column) ==
    /\ ~panic
    /\ Len(items) < MaxItems
    /\ Len(itemsColumn) < MaxColumnEntries
    /\ items' = Append(items, [item EXCEPT !.col = column])
    /\ itemsColumn' = Append(itemsColumn, column)
    /\ lastButton' = Len(items')
    /\ op' = Op("AddFormItemWithColumn", "", column, Quiet)
    /\ UNCHANGED <<buttons, cancel, focusedElement, lastItem, appFocus, layVars, panic>>

AddFormItem(item) == AddFormItemWithColumn(item, 0)

SetCancelFunc(callback) ==
    /\ ~panic
    /\ cancel' = callback
    /\ op' = Op("SetCancelFunc", "", 0, Quiet)
    /\ UNCHANGED <<items, itemsColumn, buttons, navVars, layVars, panic>>

\* The index the loop of ResetFocus stops at: the first field that is not
\* disabled; the focus index is left as it is when there is none.
FirstEnabled(fe) ==
    LET en == {i \in 1..Len(items) : ~items[i].disable}
    IN  IF en = {} THEN fe ELSE Min(en) - 1

ResetFocus ==
    /\ ~panic
    /\ focusedElement' = FirstEnabled(focusedElement)
    /\ lastItem' = 0
    /\ lastButton' = Len(items)
    /\ op' = Op("ResetFocus", "", 0, Quiet)
    /\ UNCHANGED <<regVars, appFocus, layVars, panic>>

\* The application hands focus to the form: f.Focus(delegate).
DoFocus ==
    /\ ~panic
    /\ \E s \in {Focus(Cur)} : SetNav(s) /\ op' = Op("Focus", "", 0, s)
    /\ UNCHANGED <<regVars, layVars>>

\* The primitive that holds focus finishes with a key and calls its handler.
Key(key) ==
    /\ ~panic
    /\ appFocus.has
    /\ \E s \in {Handle(key, Cur)} : SetNav(s) /\ op' = Op("Key", key, 0, s)
    /\ UNCHANGED <<regVars, layVars>>

\* Box.SetRect, called by whoever lays the form out on the screen.
SetRect(x, y, width, height) ==
    /\ ~panic
    /\ box' = [box EXCEPT !.x = x, !.y = y, !.width = width, !.height = height]
    /\ op' = Op("SetRect", "", width, Quiet)
    /\ UNCHANGED <<regVars, navVars, horizontal, align, buttonsAlign, itemPadding,
                   columnPadding, buttonsPaddingTop, buttonsIndent, draws, panic>>

\* Box.SetBorder.
SetBorder(show) ==
    /\ ~panic
    /\ box' = [box EXCEPT !.border = show]
    /\ op' = Op("SetBorder", "", IF show THEN 1 ELSE 0, Quiet)
    /\ UNCHANGED <<regVars, navVars, horizontal, align, buttonsAlign, itemPadding,
                   columnPadding, buttonsPaddingTop, buttonsIndent, draws, panic>>

\* A call of Form.GetRect: it changes nothing, and panics when it measures
\* (width or height 0) and a field has no column entry.
CallGetRect ==
    /\ ~panic
    /\ panic' = ((box.width = 0 \/ box.height = 0) /\ ~ColumnLookupsInRange)
    /\ op' = Op("GetRect", "", 0, Quiet)
    /\ UNCHANGED <<regVars, navVars, layVars>>

SetAlign(a) ==
    /\ ~panic
    /\ align' = a
    /\ op' = Op("SetAlign", a, 0, Quiet)
    /\ UNCHANGED <<regVars, navVars, horizontal, buttonsAlign, itemPadding,
                   columnPadding, buttonsPaddingTop, buttonsIndent, box, draws, panic>>

SetButtonsAlign(a) ==
    /\ ~panic
    /\ buttonsAlign' = a
    /\ op' = Op("SetButtonsAlign", a, 0, Quiet)
    /\ UNCHANGED <<regVars, navVars, horizontal, align, itemPadding,
                   columnPadding, buttonsPaddingTop, buttonsIndent, box, draws, panic>>

SetItemPadding(padding) ==
    /\ ~panic
    /\ itemPadding' = padding
    /\ op' = Op("SetItemPadding", "", padding, Quiet)
    /\ UNCHANGED <<regVars, navVars, horizontal, align, buttonsAlign,
                   columnPadding, buttonsPaddingTop, buttonsIndent, box, draws, panic>>

SetHorizontal(h) ==
    /\ ~panic
    /\ horizontal' = h
    /\ op' = Op("SetHorizontal", "", IF h THEN 1 ELSE 0, Quiet)
    /\ UNCHANGED <<regVars, navVars, align, buttonsAlign, itemPadding,
                   columnPadding, buttonsPaddingTop, buttonsIndent, box, draws, panic>>

\* The fields after the pass: the attributes SetFormAttributes pushed, the
\* rectangle SetRect assigned, and whether the field was drawn.
DrawnItems(L) ==
    [i \in 1..Len(items) |->
        LET p == L.items[i]
            y == p.position.y - L.offset
        IN  [items[i] EXCEPT
                !.label = p.labelWidth,
                !.field = p.fieldWidth,
                !.rect = [p.position EXCEPT !.y = y],
                !.drawn = ~(\/ y + p.position.height <= L.limits.topLimit
                            \/ y > L.limits.bottomLimit)]]

\* The buttons after the pass: a visible button gets its rectangle and is
\* drawn or skipped; a hidden button is not touched and not drawn.
DrawnButtons(L) ==
    [j \in 1..Len(buttons) |->
        IF buttons[j].hidden THEN [buttons[j] EXCEPT !.drawn = FALSE]
        ELSE LET k == Cardinality({i \in VisiblePositions : i <= j})
                 p == L.buttons[k]
                 y == p.y - L.offset
             IN  [buttons[j] EXCEPT
                    !.rect = [p EXCEPT !.y = y],
                    !.drawn = ~(\/ y + p.height <= L.limits.topLimit
                                \/ (y >= L.limits.bottomLimit /\ L.limits.boxHeight > 0))]]

\* Form.Draw: one layout pass. The pass number is recorded as op.arg.
Draw ==
    /\ ~panic
    /\ draws < MaxDraws
    /\ draws' = draws + 1
    /\ IF ColumnLookupsInRange
       THEN /\ items' = DrawnItems(Layout)
            /\ buttons' = DrawnButtons(Layout)
            /\ panic' = FALSE
       ELSE /\ panic' = TRUE
            /\ UNCHANGED <<items, buttons>>
    /\ op' = Op("Draw", "", draws + 1, Quiet)
    /\ UNCHANGED <<itemsColumn, cancel, navVars, horizontal, align, buttonsAlign,
                   itemPadding, columnPadding, buttonsPaddingTop, buttonsIndent, box>>

----------------------------------------------------------------------------
(* The specification of the registry and the focus navigation.             *)

Columns == {0, 1}

\* The fields a caller builds and passes to AddFormItem.
CallerItems == {NewItem(ItemId, d, 1, 1, "left", 1) : d \in BOOLEAN}

Init ==
    /\ items = <<>>
    /\ itemsColumn = <<>>
    /\ buttons = <<>>
    /\ focusedElement = 0
    /\ lastItem = 0
    /\ lastButton = 0
    /\ cancel = FALSE
    /\ horizontal = FALSE
    /\ align = "left"
    /\ buttonsAlign = "left"
    /\ itemPadding = DefaultItemPadding
    /\ columnPadding = DefaultColumnPadding
    /\ buttonsPaddingTop = DefaultButtonsPaddingTop
    /\ buttonsIndent = DefaultButtonsIndent
    /\ box = NewBox
    /\ draws = 0
    /\ appFocus = NoFocus
    /\ panic = FALSE
    /\ op = Op("NewForm", "", 0, Quiet)

Next ==
    \/ AddInputField
    \/ AddPasswordField
    \/ AddDropDown
    \/ AddRadioButton
    \/ AddCheckbox
    \/ AddButton(2)
    \/ \E index \in 0..MaxButtons, state \in BOOLEAN : HiddenButton(index, state)
    \/ \E includeButtons \in BOOLEAN : Clear(includeButtons)
    \/ ClearButtons
    \/ \E item \in CallerItems : AddFormItem(item)
    \/ \E callback \in BOOLEAN : SetCancelFunc(callback)
    \/ ResetFocus
    \/ DoFocus
    \/ \E key \in Keys : Key(key)

Spec == Init /\ [][Next]_vars

\* The registry alone: the append operations and Clear, with columns.
NextRegistry ==
    \/ AddButton(2)
    \/ AddInputField
    \/ AddPasswordField
    \/ AddDropDown
    \/ AddRadioButton
    \/ AddCheckbox
    \/ \E item \in CallerItems : AddFormItem(item)
    \/ \E item \in CallerItems, column \in Columns : AddFormItemWithColumn(item, column)
    \/ \E includeButtons \in BOOLEAN : Clear(includeButtons)
    \/ \E index \in 0..MaxButtons : HiddenButton(index, TRUE)
    \/ \E show \in BOOLEAN : SetBorder(show)
    \/ CallGetRect

SpecRegistry == Init /\ [][NextRegistry]_vars

\* The fields a caller builds for the layout: a label of one cell, a flexible
\* or a fixed field, any alignment.
LayoutItems ==
    {NewItem(ItemId, FALSE, 1, w, a, 1) : w \in {0, 1}, a \in Aligns}

\* The rectangles the form is given on the screen.
Rects ==
    {[x |-> 0, y |-> 0, width |-> 30, height |-> 5],
     [x |-> 0, y |-> 0, width |-> 8, height |-> 4]}

\* The form is still being built: it was neither focused nor drawn yet.
Building == draws = 0 /\ appFocus = NoFocus

\* The layout: a caller builds and configures the form, and the application
\* then focuses it, moves the focus with Tab and draws it, up to MaxDraws
\* times.
NextLayout ==
    \/ Building /\ AddInputField
    \/ Building /\ \E item \in LayoutItems, column \in Columns :
                        AddFormItemWithColumn(item, column)
    \/ Building /\ AddButton(2)
    \/ Building /\ \E h \in BOOLEAN : SetHorizontal(h)
    \/ Building /\ \E a \in Aligns : SetAlign(a)
    \/ Building /\ \E r \in Rects : SetRect(r.x, r.y, r.width, r.height)
    \/ DoFocus
    \/ Key("Tab")
    \/ Draw

SpecLayout == Init /\ [][NextLayout]_vars

----------------------------------------------------------------------------
(* Notions the properties share.                                           *)

InRange == 0 <= focusedElement /\ focusedElement < numElements

\* The element a valid focus index denotes, as Form.Focus resolves it.
ElementAt(fe) ==
    IF fe < numFields THEN [kind |-> "item", id |-> items[fe + 1].id]
    ELSE [kind |-> "button", id |-> Buttons[ButtonIndex(fe) + 1].id]

\* The form is settled: the focus index is valid and the element it denotes
\* is the one that holds the focus.
Settled ==
    /\ ~panic
    /\ InRange
    /\ appFocus.has
    /\ ElementAt(focusedElement) = [kind |-> appFocus.kind, id |-> appFocus.id]

AllAccept == \A i \in 1..Len(items) : ~items[i].disable

\* The same key, k times in a row.
RECURSIVE Repeat(_, _, _)
Repeat(key, k, s) == IF k = 0 THEN s ELSE Repeat(key, k - 1, Handle(key, s))

DirectionalKeys(kind) ==
    IF kind = "item" THEN {"Tab", "Backtab", "Up", "Down"}
    ELSE {"Tab", "Backtab", "Up", "Down", "Left", "Right"}

\* The focus index that denotes the visible button with identity id.
FocusIndexOf(id) ==
    CHOOSE fe \in numFields..(numElements - 1) : Buttons[ButtonIndex(fe) + 1].id = id

----------------------------------------------------------------------------
(* C1: whenever the form has a field or a visible button, the focus index  *)
(* is in [0, numFields + numVisibleButtons), in every state.                *)
C1_FocusIndexAlwaysInRange == numElements # 0 => InRange

\* What does hold: the index is in range right after Clear, after every call
\* of Focus, and after every key transition that handed focus on.
FocusIndexInRangeAfterHandoff ==
    (/\ numElements # 0
     /\ \/ op.name \in {"Clear", "Focus"}
        \/ op.name = "Key" /\ op.handoffs > 0)
    => InRange

----------------------------------------------------------------------------
(* C2: navigation closure. As stated: from a settled state in which every  *)
(* element accepts focus, a directional key pressed numFields+numButtons   *)
(* times returns the focus index to its value.                             *)
C2_ClosureAfterAllElements ==
    (Settled /\ AllAccept) =>
        \A key \in DirectionalKeys(appFocus.kind) :
            Repeat(key, numElements, Cur).fe = focusedElement

(* C2, amended: the key returns the focus index after the length of the    *)
(* cycle it walks: Tab and Shift+Tab, from an index <= numFields, after    *)
(* numFields + min(numButtons, 1) presses; Up and Down on a field after    *)
(* numFields presses; Up, Left, Down and Right on a button after           *)
(* numButtons presses.                                                     *)
C2_ClosureAfterCycle ==
    (Settled /\ AllAccept) =>
        /\ focusedElement <= numFields =>
             \A key \in {"Tab", "Backtab"} :
                LET s == Repeat(key, numFields + (IF numButtons > 0 THEN 1 ELSE 0), Cur)
                IN  s.fe = focusedElement /\ s.foc = appFocus /\ ~s.panic
        /\ appFocus.kind = "item" =>
             \A key \in {"Up", "Down"} :
                LET s == Repeat(key, numFields, Cur)
                IN  s.fe = focusedElement /\ s.foc = appFocus /\ ~s.panic
        /\ appFocus.kind = "button" =>
             \A key \in {"Up", "Down", "Left", "Right"} :
                LET s == Repeat(key, numButtons, Cur)
                IN  s.fe = focusedElement /\ s.foc = appFocus /\ ~s.panic

\* Tab moved the focus from the last of two fields to the first button index,
\* in a form of two fields and two buttons.
C2_Witness ==
    /\ op.name = "Key"
    /\ op.key = "Tab"
    /\ op.handoffs = 1
    /\ focusedElement = numFields
    /\ Settled
    /\ AllAccept
    /\ numFields = 2
    /\ numButtons = 2

----------------------------------------------------------------------------
(* C3: skip semantics. A Tab, Shift+Tab, Enter, Up or Down transition,     *)
(* started in a settled state in which an element other than the focused   *)
(* one accepts focus, does not end on a disabled field: neither the focus  *)
(* index nor the last hand-off denotes one.                                *)
OtherAcceptor ==
    \/ \E i \in 1..Len(items) :
          ~items[i].disable /\ ~(appFocus.kind = "item" /\ appFocus.id = items[i].id)
    \/ \E k \in 1..Len(Buttons) :
          ~(appFocus.kind = "button" /\ appFocus.id = Buttons[k].id)

EndsOnDisabled ==
    \/ focusedElement \in 0..(numFields - 1) /\ items[focusedElement + 1].disable
    \/ appFocus.kind = "item" /\ \E i \in 1..Len(items) :
          items[i].id = appFocus.id /\ items[i].disable

C3_NeverEndsOnDisabled ==
    [][(/\ Settled
        /\ OtherAcceptor
        /\ op'.name = "Key"
        /\ op'.key \in {"Tab", "Backtab", "Enter", "Up", "Down"}
        /\ ~panic')
       => ~EndsOnDisabled']_vars

----------------------------------------------------------------------------
(* C4: hidden-button exclusion.                                            *)

\* Buttons() is the subsequence of the non-hidden buttons, in storage order.
VisibleSubsequence ==
    /\ \A k \in 1..Len(Buttons) : ~Buttons[k].hidden
    /\ \A j \in VisiblePositions : \E k \in 1..Len(Buttons) : Buttons[k] = buttons[j]
    /\ \A k, l \in 1..Len(Buttons) :
          k < l => \E i, j \in 1..Len(buttons) :
                      i < j /\ buttons[i] = Buttons[k] /\ buttons[j] = Buttons[l]

\* The focus indices at which Focus hands focus to a button are as many as
\* the non-hidden buttons, and denote each of them once.
ButtonIndexSpace ==
    LET handed(fe) == Focus([Cur EXCEPT !.fe = fe])
        idx == {fe \in numFields..(numFields + Len(buttons) + 1) :
                    /\ handed(fe).handoffs = 1
                    /\ handed(fe).fe = fe
                    /\ handed(fe).foc.kind = "button"}
    IN  /\ Cardinality(idx) = Cardinality(VisiblePositions)
        /\ {handed(fe).foc.id : fe \in idx} = {buttons[j].id : j \in VisiblePositions}

\* No Focus call and no key transition hands focus to a hidden button.
NoHandoffToHidden ==
    (op.name \in {"Focus", "Key"} /\ op.handoffs > 0 /\ appFocus.kind = "button")
    => \E j \in VisiblePositions : buttons[j].id = appFocus.id

\* HiddenButton(h, true) hides a visible button in this step.
Hides(h) ==
    /\ op'.name = "HiddenButton"
    /\ op'.arg = h - 1
    /\ h \in VisiblePositions

(* C4 as stated: hiding a button changes no other button's focus index.    *)
C4_HidingShiftsNoIndex ==
    /\ [](VisibleSubsequence /\ ButtonIndexSpace /\ NoHandoffToHidden)
    /\ [][\A h \in 1..Len(buttons) : Hides(h) =>
            \A j \in VisiblePositions \ {h} :
                /\ buttons'[j] = buttons[j]
                /\ FocusIndexOf(buttons[j].id)' = FocusIndexOf(buttons[j].id)]_vars

(* C4, amended: hiding a button leaves the other buttons as they are in    *)
(* storage; a visible button stored after it keeps its focus index and one *)
(* stored before it moves to the index below.                              *)
C4_HidingShiftsEarlierButtons ==
    /\ [](VisibleSubsequence /\ ButtonIndexSpace /\ NoHandoffToHidden)
    /\ [][\A h \in 1..Len(buttons) : Hides(h) =>
            \A j \in VisiblePositions \ {h} :
                /\ buttons'[j] = buttons[j]
                /\ FocusIndexOf(buttons[j].id)' =
                      IF j > h THEN FocusIndexOf(buttons[j].id)
                      ELSE FocusIndexOf(buttons[j].id) - 1]_vars

\* A button was hidden while a button stored before it stayed visible.
C4_Witness ==
    /\ op.name = "HiddenButton"
    /\ op.arg = 1
    /\ Len(buttons) = 2
    /\ buttons[2].hidden
    /\ ~buttons[1].hidden
    /\ numFields > 0

----------------------------------------------------------------------------
(* C5: column lockstep: the column sequence has one entry per field, and   *)
(* entry i is the column field i was added with.                           *)
C5_ColumnLockstep ==
    /\ Len(itemsColumn) = Len(items)
    /\ \A i \in 1..Len(items) :
          i <= Len(itemsColumn) /\ itemsColumn[i] = items[i].col

----------------------------------------------------------------------------
(* C6: idempotent layout. Of two consecutive Draw passes, with the same    *)
(* container bounds and nothing changed in between, the second assigns the *)
(* rectangles and the label and field widths the first assigned, to every  *)
(* field and every visible button.                                         *)
Geometry ==
    [fields |-> [i \in 1..Len(items) |->
                    [rect |-> items[i].rect, label |-> items[i].label,
                     field |-> items[i].field]],
     buttons |-> [k \in 1..Len(Buttons) |-> Buttons[k].rect]]

C6_IdempotentLayout ==
    [][(op.name = "Draw" /\ op'.name = "Draw" /\ ~panic') => Geometry' = Geometry]_vars

----------------------------------------------------------------------------
(* C7: no key transition, delivered to a field or visible button of the    *)
(* form, looks a field or a button up at an index outside the current      *)
(* sequences (the focus index is clamped before it is used).               *)
HolderInForm ==
    \/ appFocus.kind = "item" /\ \E i \in 1..Len(items) : items[i].id = appFocus.id
    \/ appFocus.kind = "button" /\ \E j \in VisiblePositions : buttons[j].id = appFocus.id

C7_NoLookupOutOfRange ==
    [][(op'.name = "Key" /\ HolderInForm) => ~panic']_vars

----------------------------------------------------------------------------
(* C8: ResetFocus sets the focus index to the first field that is not      *)
(* disabled, to 0 when there is no field, and resets lastItem to 0 and     *)
(* lastButton to numFields.                                                *)
C8_ResetFocus ==
    op.name = "ResetFocus" =>
        /\ \A i \in 1..Len(items) :
              (~items[i].disable /\ \A j \in 1..(i - 1) : items[j].disable)
              => focusedElement = i - 1
        /\ items = <<>> => focusedElement = 0
        /\ lastItem = 0
        /\ lastButton = numFields

----------------------------------------------------------------------------
(* C9: Escape. As stated: without a cancel callback the focus index        *)
(* becomes 0 and focus is handed to the first field; with one, it is       *)
(* called once and the focus index stays.                                  *)
EscapeStep == op'.name = "Key" /\ op'.key = "Escape"

WithCancel ==
    /\ op'.cancels = 1
    /\ op'.handoffs = 0
    /\ focusedElement' = focusedElement
    /\ appFocus' = appFocus

C9_EscapeToFirstField ==
    [][EscapeStep =>
        IF cancel THEN WithCancel
        ELSE /\ focusedElement' = 0
             /\ op'.handoffs = 1
             /\ numFields > 0
             /\ appFocus'.kind = "item"
             /\ appFocus'.id = items[1].id]_vars

(* C9, amended: without a cancel callback the focus index becomes 0 and    *)
(* focus is handed to the element at index 0: the first field when the     *)
(* form has a field, the last visible button when it has only buttons,     *)
(* and nothing when it has neither.                                        *)
C9_EscapeToIndexZero ==
    [][EscapeStep =>
        IF cancel THEN WithCancel
        ELSE /\ focusedElement' = 0
             /\ op'.cancels = 0
             /\ numFields > 0 =>
                   /\ op'.handoffs = 1
                   /\ appFocus'.kind = "item"
                   /\ appFocus'.id = items[1].id
             /\ (numFields = 0 /\ numButtons > 0) =>
                   /\ op'.handoffs = 1
                   /\ appFocus'.kind = "button"
                   /\ appFocus'.id = Buttons[numButtons].id
             /\ numElements = 0 => (op'.handoffs = 0 /\ appFocus' = appFocus)]_vars

\* Escape, with no cancel callback, took the focus back from the second
\* field to the first.
C9_Witness ==
    /\ op.name = "Key"
    /\ op.key = "Escape"
    /\ ~cancel
    /\ lastItem = 1
    /\ focusedElement = 0
    /\ numFields = 2
    /\ appFocus = [id |-> items[1].id, kind |-> "item", has |-> TRUE]

----------------------------------------------------------------------------
(* C10: Clear(includeButtons) leaves no field and the focus index 0; the   *)
(* buttons are removed when includeButtons is true and stay as they are    *)
(* (same buttons, order and hidden flags) when it is false.                *)
C10_Clear ==
    [][op'.name = "Clear" =>
        /\ items' = <<>>
        /\ focusedElement' = 0
        /\ op'.arg = 1 => buttons' = <<>>
        /\ op'.arg = 0 => buttons' = buttons]_vars

\* Clear(false) while a button holds the focus, one of two buttons hidden.
C10_Witness ==
    /\ op.name = "Clear"
    /\ op.arg = 0
    /\ items = <<>>
    /\ focusedElement = 0
    /\ lastButton > 0
    /\ appFocus.kind = "button"
    /\ appFocus.has
    /\ Len(buttons) = 2
    /\ buttons[1].hidden

----------------------------------------------------------------------------
(* Notions the properties of the layout share.                             *)

\* A step of Draw that ran to its end.
DrawStep == op'.name = "Draw" /\ ~panic'

FocusedFields == {i \in 1..Len(items) : HasFocus(Cur, "item", items[i])}
FocusedButtons == {j \in VisiblePositions : HasFocus(Cur, "button", buttons[j])}

\* The index in Buttons() of the visible button stored at position j.
VisibleIndex(j) == Cardinality({i \in VisiblePositions : i <= j})

\* The rectangle lies in the visible rows: its row is not above the top
\* boundary, and it ends at or above the bottom boundary when it is not
\* higher than the visible height.
Contained(rect, g) ==
    /\ rect.y >= g.topLimit
    /\ rect.height <= g.boxHeight => rect.y + rect.height <= g.bottomLimit

\* The rectangle is the computed position, not scrolled, when the computed
\* position ends at or above the bottom boundary.
Unscrolled(rect, position, g) ==
    position.y + position.height <= g.bottomLimit => rect.y = position.y

----------------------------------------------------------------------------
(* C11: viewport containment. After a Draw pass in which a field or a      *)
(* visible button reports focus, the row assigned to that element is not   *)
(* above the top boundary; it ends at or above the bottom boundary when    *)
(* its height is at most the visible height; and it was not scrolled when  *)
(* its computed position already ended at or above the bottom boundary.    *)
C11_ViewportContainment ==
    [][DrawStep =>
        /\ \A i \in FocusedFields :
              /\ Contained(items'[i].rect, Limits)
              /\ Unscrolled(items'[i].rect, Layout.items[i].position, Limits)
        /\ \A j \in FocusedButtons :
              /\ Contained(buttons'[j].rect, Limits)
              /\ Unscrolled(buttons'[j].rect, Layout.buttons[VisibleIndex(j)], Limits)]_vars

----------------------------------------------------------------------------
(* C12: column width invariant. After a layout pass the label width plus   *)
(* the field width pushed to a field is at most maxTotalWidth[c] of the    *)
(* field's column c, as the measurement of that pass computed it.          *)
C12_ColumnWidth ==
    [][DrawStep =>
        \A i \in 1..Len(items) :
            items'[i].label + items'[i].field
                <= getMaxWidthItems.maxWidth[itemsColumn[i]]]_vars

----------------------------------------------------------------------------
(* C13: auto-sizing. With no width of its own (0) the form reports the sum *)
(* of maxTotalWidth[c] over all columns, plus the left and right padding,  *)
(* plus 2 with a border; with no height of its own, the maximum column     *)
(* height, plus 1 + buttonsPaddingTop if any button exists (hidden buttons *)
(* take no part in the layout and are not counted), plus the top and       *)
(* bottom padding, plus 2 with a border.                                   *)
SumOfColumns ==
    LET maxWidth == getMaxWidthItems.maxWidth
        RECURSIVE Sum(_)
        Sum(c) == IF c < 0 THEN 0 ELSE Sum(c - 1) + maxWidth[c]
    IN  Sum(getColoumnsCount - 1)

AutoWidth ==
    box.width = 0 =>
        GetRect.width = SumOfColumns + box.paddingLeft + box.paddingRight
                        + (IF box.border THEN 2 ELSE 0)

AutoHeight ==
    box.height = 0 =>
        GetRect.height = getMaxHeightColumn
                         + (IF VisiblePositions # {} THEN 1 + buttonsPaddingTop ELSE 0)
                         + box.paddingTop + box.paddingBottom
                         + (IF box.border THEN 2 ELSE 0)

C13_AutoSizing ==
    (op.name = "GetRect" /\ ~panic) => (AutoWidth /\ AutoHeight)

----------------------------------------------------------------------------
(* C14: horizontal wrap.                                                   *)

\* Where the field loop starts on field i: x is the start of the field's
\* column, y the row of the column, which is the row of the field placed in
\* that column before (horizontal mode), or the top boundary.
StartOf(i) ==
    LET m == getMaxWidthItems
        before == {j \in 1..(i - 1) : itemsColumn[j] = itemsColumn[i]}
    IN  [x |-> ColX(AlignedX(Limits, ContentWidth(m.maxWidth)), m.maxWidth)[itemsColumn[i]],
         y |-> IF before = {} THEN Limits.topLimit
               ELSE Layout.items[Max(before)].position.y]

\* Field i was put on a new row: at the left start, two rows further down.
OnNewRow(i) ==
    /\ Layout.items[i].position.x = Limits.startX
    /\ Layout.items[i].position.y = StartOf(i).y + 2

\* Field i was put where the loop started on it.
OnItsRow(i) ==
    /\ Layout.items[i].position.x = StartOf(i).x
    /\ Layout.items[i].position.y = StartOf(i).y

\* The position is the one the field's rectangle gets, less the offset.
Assigned(i) ==
    items'[i].rect = [Layout.items[i].position EXCEPT !.y = @ - Layout.offset]

(* C14 as stated: in horizontal mode a field whose start x plus label      *)
(* width plus field width (the default for a flexible field) exceeds the   *)
(* right boundary is placed on a new row, at the left start of the usable  *)
(* rectangle and two rows below its row.                                   *)
C14_WrapWhenWidthExceeds ==
    [][(DrawStep /\ horizontal) =>
        \A i \in 1..Len(items) :
            StartOf(i).x + Layout.items[i].labelWidth + Layout.items[i].fieldWidth
                > Limits.rightLimit
            => (OnNewRow(i) /\ Assigned(i))]_vars

(* C14, amended: the field is placed on a new row exactly when its start x *)
(* plus its label width plus 1 reaches the right boundary; otherwise it    *)
(* stays on its row, and its item width is cut to the space that is left   *)
(* when start x plus label width plus field width reaches the boundary.    *)
C14_WrapWhenLabelExceeds ==
    [][(DrawStep /\ horizontal) =>
        \A i \in 1..Len(items) :
            LET p == Layout.items[i]
                s == StartOf(i)
            IN  /\ Assigned(i)
                /\ IF s.x + p.labelWidth + 1 >= Limits.rightLimit
                   THEN OnNewRow(i)
                   ELSE /\ OnItsRow(i)
                        /\ p.itemWidth =
                              IF s.x + p.labelWidth + p.fieldWidth >= Limits.rightLimit
                              THEN Limits.rightLimit - s.x
                              ELSE p.labelWidth + p.fieldWidth]_vars

\* A pass in horizontal mode, in a rectangle 8 cells wide, put the field of
\* the second column on a new row and left the field of the first, whose
\* flexible field does not fit either, on the first row.
C14_Witness ==
    /\ op.name = "Draw"
    /\ ~panic
    /\ horizontal
    /\ box.width = 8
    /\ align = "left"
    /\ Len(items) = 2
    /\ itemsColumn = <<0, 1>>
    /\ items[1].field = DefaultFormFieldWidth
    /\ items[1].rect.x = 1 /\ items[1].rect.y = 1
    /\ items[2].rect.x = 1 /\ items[2].rect.y = 3

----------------------------------------------------------------------------
(* C15: horizontal left-to-right placement. In horizontal mode, of two     *)
(* consecutive fields that end up on the same row the later one starts at  *)
(* the earlier one's x plus the earlier one's item width plus itemPadding, *)
(* and no two fields are assigned the same (x, y).                         *)
C15_LeftToRight ==
    [][(DrawStep /\ horizontal) =>
        /\ \A i \in 1..(Len(items) - 1) :
              items'[i + 1].rect.y = items'[i].rect.y =>
                  items'[i + 1].rect.x =
                      items'[i].rect.x + Layout.items[i].itemWidth + itemPadding
        /\ \A i, j \in 1..Len(items) :
              i # j => <<items'[i].rect.x, items'[i].rect.y>>
                         # <<items'[j].rect.x, items'[j].rect.y>>]_vars

----------------------------------------------------------------------------
(* C16: the reversed button mapping is applied consistently. When Focus or *)
(* a key transition handed focus on and ends with the focus index          *)
(* numFields + k, 0 <= k < numButtons, and the element accepted, the       *)
(* element that holds focus is the visible button at position              *)
(* numButtons - 1 - k of Buttons(); a key transition of nextStep then      *)
(* recorded that index as lastButton, and lastButton is recorded by a key  *)
(* transition in no other case.                                            *)
EndsOnButtonIndex ==
    /\ op.name \in {"Focus", "Key"}
    /\ op.handoffs > 0
    /\ ~panic
    /\ appFocus.has
    /\ focusedElement \in numFields..(numElements - 1)

\* The visible button at 0-based position numButtons - 1 - k holds focus.
HeldByMirrored(k) ==
    /\ appFocus.kind = "button"
    /\ appFocus.has
    /\ appFocus.id = Buttons[(numButtons - 1 - k) + 1].id

C16_ReversedMapping ==
    /\ [](EndsOnButtonIndex =>
            /\ HeldByMirrored(focusedElement - numFields)
            /\ (op.name = "Key" /\ op.key # "Escape") => lastButton = focusedElement)
    /\ [][(op'.name = "Key" /\ ~panic' /\ lastButton' # lastButton) =>
            /\ lastButton' = focusedElement'
            /\ EndsOnButtonIndex'
            /\ HeldByMirrored(focusedElement - numFields)']_vars

\* Up moved the focus to the button index numFields + 1, which the first of
\* the two visible buttons accepted.
C16_Witness ==
    /\ op.name = "Key"
    /\ op.key = "Up"
    /\ op.handoffs = 1
    /\ ~panic
    /\ numFields = 1
    /\ numButtons = 2
    /\ focusedElement = 2
    /\ lastButton = 2
    /\ appFocus = [id |-> Buttons[1].id, kind |-> "button", has |-> TRUE]

----------------------------------------------------------------------------
(* C17: a key transition in which no candidate accepts focus completes     *)
(* without an error, records no new lastItem or lastButton and leaves the  *)
(* focus index as it was.                                                  *)

\* A step of nextStep: a key that the handler of the focused element walks
\* candidates for.
WalkStep ==
    /\ op'.name = "Key"
    /\ op'.key \in (IF appFocus.kind = "item"
                    THEN {"Tab", "Backtab", "Enter", "Up", "Down"}
                    ELSE {"Tab", "Backtab", "Up", "Down", "Left", "Right"})

\* No candidate accepted: the walk stopped with an error, handed focus to no
\* candidate, or the last candidate it handed focus to declined.
NoneAccepted == panic' \/ op'.handoffs = 0 \/ ~appFocus'.has

C17_NoCandidateAccepts ==
    [][(WalkStep /\ NoneAccepted) =>
        /\ ~panic'
        /\ lastItem' = lastItem
        /\ lastButton' = lastButton
        /\ focusedElement' = focusedElement]_vars

----------------------------------------------------------------------------
(* C18: every key transition terminates: the walk visits each candidate of *)
(* the rotated sequence at most once, hands focus off at most once per     *)
(* candidate, and the nesting depth of the Focus calls of the walk never   *)
(* exceeds numFields + numButtons, also when every candidate declines.     *)

\* The candidate sequence a handler passes to nextStep for a key, <<>> for a
\* key it does not walk for.
KeyRange(kind, key) ==
    IF kind = "item"
    THEN CASE key \in {"Tab", "Enter"} -> makeRange(0, numFields)
           [] key = "Backtab"          -> makeRange(numFields, 0)
           [] key = "Up"               -> makeRange(numFields - 1, 0)
           [] key = "Down"             -> makeRange(0, numFields - 1)
           [] OTHER                    -> << >>
    ELSE CASE key = "Tab"              -> makeRange(0, numFields)
           [] key = "Backtab"          -> makeRange(numFields, 0)
           [] key \in {"Up", "Left"}   ->
                 makeRange(numFields, numFields + numButtons - 1)
           [] key \in {"Down", "Right"} ->
                 makeRange(numFields + numButtons - 1, numFields)
           [] OTHER                    -> << >>

\* The iterations of the candidate loop of nextStep that pass the range test,
\* in order: the candidate, the number of calls of f.Focus the iteration makes
\* and the number of hand-offs those calls make.
RECURSIVE Walk(_, _, _, _)
Walk(indexes, i, current, s) ==
    IF i > Len(indexes) THEN << >>
    ELSE IF indexes[i] >= numElements THEN Walk(indexes, i + 1, current, s)
    ELSE LET s1 == [s EXCEPT !.fe = indexes[i]]
             same == SameElement(s1.fe, current)
             skip == [candidate |-> indexes[i], calls |-> 0, handoffs |-> 0]
         IN  IF same = "panic" THEN <<skip>>
             ELSE IF same = "same" THEN <<skip>> \o Walk(indexes, i + 1, current, s1)
             ELSE LET s2 == Focus(s1)
                      acc == IF s2.panic THEN "panic" ELSE Accepted(s2)
                      visit == [candidate |-> indexes[i], calls |-> 1,
                                handoffs |-> s2.handoffs - s1.handoffs]
                  IN  IF acc \in {"panic", "item", "button"} THEN <<visit>>
                      ELSE <<visit>> \o Walk(indexes, i + 1, current, s2)

\* The walk of the handler of the focused element for a key.
WalkOf(key, s) ==
    LET indexes == KeyRange(s.foc.kind, key)
    IN  Walk(Rotate(indexes, s.fe), 1, s.fe, s)

RECURSIVE SumHandoffs(_)
SumHandoffs(w) == IF w = << >> THEN 0 ELSE Head(w).handoffs + SumHandoffs(Tail(w))

\* The walk is the one the transition takes: it hands focus off as often as
\* the transition does, and its last candidate, clamped by Focus when it is
\* negative, is the new focus index.
WalkIsTheTransition ==
    [][(op'.name = "Key" /\ op'.key # "Escape") =>
        LET w == WalkOf(op'.key, Cur)
        IN  /\ SumHandoffs(w) = op'.handoffs
            /\ w # << >> => focusedElement' \in {w[Len(w)].candidate,
                                                Clamp(w[Len(w)].candidate)}
            /\ w = << >> => focusedElement' = focusedElement]_vars

\* The deepest nesting of f.Focus calls in a walk: Focus returns before the
\* loop goes on, so the calls of a walk are never open at the same time.
Depth(w) == IF \E k \in 1..Len(w) : w[k].calls > 0 THEN 1 ELSE 0

VisitsOnce(w) == \A k, l \in 1..Len(w) : w[k].candidate = w[l].candidate => k = l

C18_WalkTerminates ==
    [][(op'.name = "Key" /\ op'.key # "Escape") =>
        LET w == WalkOf(op'.key, Cur)
        IN  /\ VisitsOnce(w)
            /\ \A k \in 1..Len(w) : w[k].calls <= 1 /\ w[k].handoffs <= w[k].calls
            /\ Depth(w) <= numFields + numButtons]_vars

----------------------------------------------------------------------------
(* C19: while a button holds focus, Up/Left and Down/Right keep the focus  *)
(* index in [numFields, numFields + numVisibleButtons); Up/Left advances   *)
(* it by one and Down/Right decreases it by one, wrapping around within    *)
(* the button range, so that Up/Left followed by Down/Right returns focus  *)
(* to the original button.                                                 *)

InButtonRange(fe) == numFields <= fe /\ fe < numFields + numButtons

\* The focus index fe moved by d within the button range, wrapping around.
WrapInButtons(fe, d) == numFields + ((fe - numFields + d) % numButtons)

ButtonKeyStep(keys) ==
    /\ op'.name = "Key"
    /\ op'.key \in keys
    /\ appFocus.kind = "button"
    /\ appFocus.has

C19_ButtonKeysAreInverses ==
    [][/\ ButtonKeyStep({"Up", "Left", "Down", "Right"}) =>
            /\ ~panic'
            /\ InButtonRange(focusedElement')
       /\ ButtonKeyStep({"Up", "Left"}) =>
            /\ focusedElement' = WrapInButtons(focusedElement, 1)
            /\ \A back \in {"Down", "Right"} :
                  Handle(back, Handle(op'.key, Cur)).foc = appFocus
       /\ ButtonKeyStep({"Down", "Right"}) =>
            focusedElement' = WrapInButtons(focusedElement, -1)]_vars

----------------------------------------------------------------------------
(* C20: clipping. In every Draw pass every field and every visible button  *)
(* is assigned its rectangle, with row = computed row minus offset, and is *)
(* drawn if and only if that rectangle intersects the visible band of rows *)
(* [topLimit, bottomLimit); an element whose row equals bottomLimit is     *)
(* outside the band and is not drawn.                                      *)

\* The computed position moved up by the offset of the pass.
Adjusted(position, L) == [position EXCEPT !.y = position.y - L.offset]

\* The rectangle has a row in [topLimit, bottomLimit).
IntersectsBand(rect, g) ==
    /\ rect.y < g.bottomLimit
    /\ rect.y + rect.height > g.topLimit

C20_Clipping ==
    [][DrawStep =>
        /\ \A i \in 1..Len(items) :
              /\ items'[i].rect = Adjusted(Layout.items[i].position, Layout)
              /\ items'[i].drawn <=> IntersectsBand(items'[i].rect, Limits)
        /\ \A j \in VisiblePositions :
              /\ buttons'[j].rect = Adjusted(Layout.buttons[VisibleIndex(j)], Layout)
              /\ buttons'[j].drawn <=> IntersectsBand(buttons'[j].rect, Limits)]_vars

----------------------------------------------------------------------------
(* C21: in vertical mode the buttons are placed left to right with         *)
(* buttonsIndent between them; placement stops at the first button that    *)
(* does not fit, and that button and all later ones are not placed and not *)
(* drawn in that pass.                                                     *)

VerticalDrawStep == DrawStep /\ ~horizontal

\* x of the visible button k of the pass: behind the button before it.
ButtonXAt(k) ==
    IF k = 1 THEN ButtonsStart
    ELSE Layout.buttons[k - 1].x + Layout.buttons[k - 1].width + buttonsIndent

\* The space left for the visible button k, up to the right boundary.
SpaceAt(k) == Limits.rightLimit - ButtonXAt(k)

\* The buttons are placed left to right, buttonsIndent apart, and the ones
\* the loop did not place are not drawn.
PlacedLeftToRight ==
    /\ \A j \in VisiblePositions :
          VisibleIndex(j) <= Layout.placedButtons =>
              /\ buttons'[j].rect.x = ButtonXAt(VisibleIndex(j))
              /\ buttons'[j].rect.x + buttons'[j].rect.width <= Limits.rightLimit
    /\ \A j \in VisiblePositions :
          VisibleIndex(j) > Layout.placedButtons => ~buttons'[j].drawn

\* As the claim has it: a button is placed with its full width, label + 4,
\* and the first button whose width exceeds the space left ends the placement.
C21_StopsAtFirstMisfit ==
    [][VerticalDrawStep =>
        /\ PlacedLeftToRight
        /\ \A j \in VisiblePositions :
              VisibleIndex(j) <= Layout.placedButtons =>
                  buttons'[j].rect.width = buttons[j].label + 4
        /\ Layout.placedButtons < numButtons =>
              Buttons[Layout.placedButtons + 1].label + 4
                  > SpaceAt(Layout.placedButtons + 1)]_vars

\* What the code does: placement stops at the first button for which not one
\* cell is left before the right boundary; a button for which fewer cells are
\* left than its width is placed with the cells that are left.
C21_StopsWhenNoSpace ==
    [][VerticalDrawStep =>
        /\ PlacedLeftToRight
        /\ \A j \in VisiblePositions :
              VisibleIndex(j) <= Layout.placedButtons =>
                  /\ SpaceAt(VisibleIndex(j)) >= 1
                  /\ buttons'[j].rect.width =
                        Min({buttons[j].label + 4, SpaceAt(VisibleIndex(j))})
        /\ Layout.placedButtons < numButtons =>
              SpaceAt(Layout.placedButtons + 1) < 1]_vars

\* A vertical pass has placed the first of two buttons with fewer cells than
\* its width and has not placed the second.
C21_Witness ==
    /\ op.name = "Draw"
    /\ ~panic
    /\ ~horizontal
    /\ box.width = 8
    /\ Len(buttons) = 2
    /\ VisiblePositions = {1, 2}
    /\ buttons[1].rect.width \in 1..(buttons[1].label + 3)
    /\ buttons[2].rect = ZeroPosition
    /\ ~buttons[2].drawn

====
